---- MODULE Spec2Model ----
(***************************************************************************)
(* Model of the ardayda PDF-sharing Telegram bot: the update routing of    *)
(* bot.py, the conversation handlers of handlers.py and the SQLite store   *)
(* of database.py.                                                         *)
(*                                                                         *)
(* Strings that the code takes apart are modelled as sequences of their    *)
(* parts, so that prefix tests, split and strip are computed:              *)
(*   - a status "upload.pdf.tags" is <<"upload", "pdf", "tags">>           *)
(*     (its "."-separated segments);                                       *)
(*   - callback data "upload_tag_exam:final" is                            *)
(*     <<"upload", "tag", "exam:final">> (its "_"-separated parts);        *)
(*   - a text message is the sequence of its tokens, " " being a           *)
(*     whitespace token, "/" a slash, any other token a run of characters  *)
(*     that has no whitespace at either end.                               *)
(* The menu button labels of buttons.py are written without their emoji.   *)
(***************************************************************************)
EXTENDS Integers, Sequences, FiniteSets, TLC

\* ------------------------------------------------------------------ bounds

\* Largest number of rows the pdfs table is let to grow to.
MaxPdfs == 1

\* ------------------------------------------------------------- value helpers

Range(s) == {s[i] : i \in 1..Len(s)}

\* dict[k] = v
Put(f, k, v) == [x \in (DOMAIN f) \cup {k} |-> IF x = k THEN v ELSE f[x]]

\* dict.pop(k, None)
Drop(f, k) == [x \in (DOMAIN f) \ {k} |-> f[x]]

\* The empty dict.
EmptyDict == [x \in {} |-> <<>>]

\* list.remove(x): removes the first occurrence.
RECURSIVE RemoveFirst(_, _)
RemoveFirst(s, x) ==
    IF s = <<>> THEN <<>>
    ELSE IF Head(s) = x THEN Tail(s)
    ELSE <<Head(s)>> \o RemoveFirst(Tail(s), x)

\* SQL NULL in a users column.
NULL == <<"NULL">>

\* str.strip() on a token sequence: drops leading and trailing whitespace.
RECURSIVE LStrip(_)
LStrip(t) == IF t # <<>> /\ Head(t) = " " THEN LStrip(Tail(t)) ELSE t

RECURSIVE RStrip(_)
RStrip(t) ==
    IF t # <<>> /\ t[Len(t)] = " " THEN RStrip(SubSeq(t, 1, Len(t) - 1)) ELSE t

Strip(t) == RStrip(LStrip(t))

\* int(s) for the argument of a callback: the value, or "ValueError".
IntOf == [s \in {"-1", "0", "1", "2", "3", "4"} |->
            CASE s = "-1" -> -1 [] s = "0" -> 0 [] s = "1" -> 1
              [] s = "2" -> 2 [] s = "3" -> 3 [] s = "4" -> 4]

IsInt(s) == s \in DOMAIN IntOf

\* ------------------------------------------------------------------ statuses

AUTH_NAME      == <<"auth", "register", "name">>
AUTH_REGION    == <<"auth", "register", "region">>
AUTH_SCHOOL    == <<"auth", "register", "school">>
AUTH_CLASS     == <<"auth", "register", "class">>
MENU_IDLE      == <<"sys", "menu", "idle">>
UPLOAD_FILE    == <<"upload", "pdf", "file">>
UPLOAD_TAGS    == <<"upload", "pdf", "tags">>
SEARCH_SELECT  == <<"search", "filter", "select">>
SEARCH_RESULTS == <<"search", "results", "page">>
VIEW_PAGE      == <<"view", "pdf", "page">>

\* get_user_status returning None, and `or ""`: both are falsy.
NoStatus == <<>>

\* ------------------------------------------------------------------- state

VARIABLES
    users,                \* users table: id -> row
    pdfs,                 \* pdfs table: rows in id order, the id is the index
    tags,                 \* tags table: set of <<pdf_id, tag>>
    likes,                \* likes table: set of <<pdf_id, user_id>>
    downloads,            \* downloads table: set of <<pdf_id, user_id>>
    pdf_upload_stage,     \* handlers.pdf_upload_stage: user -> upload draft
    search_selected_tags, \* handlers.search_selected_tags: user -> tag list
    pdf_search_results,   \* handlers.pdf_search_results: user -> summaries
    ev,                   \* the update handled last
    out,                  \* the Bot API calls made while handling it, in order
    threads               \* worker threads of the bot handling an update
                          \* statement by statement: thread -> position, locals

db == <<users, pdfs, tags, likes, downloads>>
session == <<pdf_upload_stage, search_selected_tags, pdf_search_results>>
vars == <<users, pdfs, tags, likes, downloads,
          pdf_upload_stage, search_selected_tags, pdf_search_results, ev, out,
          threads>>

\* telebot.TeleBot(TOKEN) is threaded: updates are handed to a pool of two
\* worker threads. A thread that is not handling an update is idle.
ThreadIds == {1, 2}

IdleThread == [pc |-> "idle", user |-> 0, data |-> <<>>, local |-> <<>>]

NoThreads == [t \in ThreadIds |-> IdleThread]

\* One Bot API call: the method, the text constant of text.py it carries (or a
\* literal of bot.py / handlers.py), and for a result list the listed pdf ids.
Call(op, text) == [op |-> op, text |-> text, items |-> <<>>]

\* ---------------------------------------------------------------- database

PdfExists(pdf_id) == pdf_id \in 1..Len(pdfs)

get_user(user_id) == user_id \in DOMAIN users

create_user(user_id, username, full_name) ==
    Put(users, user_id,
        [username |-> username, full_name |-> full_name, region |-> NULL,
         school |-> NULL, student_class |-> NULL, status |-> AUTH_NAME])

\* UPDATE users SET <field> = ? WHERE id = ?, on the table value tbl.
update_user(tbl, user_id, field, value) ==
    IF user_id \in DOMAIN tbl
    THEN [tbl EXCEPT ![user_id] = [@ EXCEPT ![field] = value]]
    ELSE tbl

get_user_status(user_id) ==
    IF user_id \in DOMAIN users THEN users[user_id].status ELSE NoStatus

set_user_status(tbl, user_id, status) ==
    IF user_id \in DOMAIN tbl
    THEN [tbl EXCEPT ![user_id].status = status]
    ELSE tbl

\* add_pdf: the INSERT INTO pdfs; the new id is lastrowid.
add_pdf_row(user_id, file_id, file_name) ==
    Append(pdfs, [id |-> Len(pdfs) + 1, user_id |-> user_id, file_id |-> file_id,
                  file_name |-> file_name, likes_count |-> 0,
                  downloads_count |-> 0])

\* add_pdf with an INSERT INTO tags loop that skips the first tag.
add_pdf_tags_mut(pdf_id, tag_list) ==
    tags \cup {<<pdf_id, tag_list[i]>> : i \in 2..Len(tag_list)}

\* add_pdf: the INSERT INTO tags loop.
add_pdf_tags(pdf_id, tag_list) ==
    tags \cup {<<pdf_id, tag_list[i]>> : i \in 1..Len(tag_list)}

\* add_pdf raises (PRIMARY KEY (pdf_id, tag)) when a tag repeats in the list.
add_pdf_raises(tag_list) == Cardinality(Range(tag_list)) # Len(tag_list)

\* The tags rows of pdf_id that survive WHERE t.tag IN (filters).
MatchedTags(pdf_id, tag_filters) ==
    {t \in Range(tag_filters) : <<pdf_id, t>> \in tags}

\* One result row: p.id, p.file_name, p.likes_count and GROUP_CONCAT(t.tag)
\* over the joined rows, split back at ",". The order of the concatenation is
\* not specified by SQLite, so the list is kept as the set of its elements.
PdfSummary(p, tag_filters) ==
    [id |-> p.id, file_name |-> p.file_name, likes_count |-> p.likes_count,
     tags |-> MatchedTags(p.id, tag_filters)]

\* The query with HAVING COUNT(DISTINCT t.tag) >= 1: any filter tag matches.
get_pdfs_by_multilevel_tags_mut(tag_filters) ==
    IF tag_filters = <<>> THEN <<>>
    ELSE LET hits == SelectSeq(pdfs, LAMBDA p :
                        Cardinality(MatchedTags(p.id, tag_filters)) >= 1)
         IN  [i \in 1..Len(hits) |-> PdfSummary(hits[i], tag_filters)]

get_pdfs_by_multilevel_tags(tag_filters) ==
    IF tag_filters = <<>> THEN <<>>
    ELSE LET hits == SelectSeq(pdfs, LAMBDA p :
                        Cardinality(MatchedTags(p.id, tag_filters))
                            = Len(tag_filters))
         IN  [i \in 1..Len(hits) |-> PdfSummary(hits[i], tag_filters)]

\* get_pdf_details(pdf_id, user_id) is not None
get_pdf_details(pdf_id) == PdfExists(pdf_id)

\* get_pdf_file_id(pdf_id), "" standing for None
get_pdf_file_id(pdf_id) == IF PdfExists(pdf_id) THEN pdfs[pdf_id].file_id ELSE ""

\* toggle_like: the likes table afterwards.
toggle_like_rows(pdf_id, user_id) ==
    IF <<pdf_id, user_id>> \in likes
    THEN likes \ {<<pdf_id, user_id>>}
    ELSE likes \cup {<<pdf_id, user_id>>}

\* toggle_like whose unlike branch leaves likes_count alone.
toggle_like_pdfs_mut(pdf_id, user_id) ==
    IF ~PdfExists(pdf_id) THEN pdfs
    ELSE IF <<pdf_id, user_id>> \in likes
    THEN pdfs
    ELSE [pdfs EXCEPT ![pdf_id].likes_count = @ + 1]

\* toggle_like: the pdfs table afterwards (the UPDATE touches no row when the
\* pdf does not exist; foreign keys are not enforced by the connection).
toggle_like_pdfs(pdf_id, user_id) ==
    IF ~PdfExists(pdf_id) THEN pdfs
    ELSE IF <<pdf_id, user_id>> \in likes
    THEN [pdfs EXCEPT ![pdf_id].likes_count = @ - 1]
    ELSE [pdfs EXCEPT ![pdf_id].likes_count = @ + 1]

\* toggle_like: the returned value.
toggle_like_result(pdf_id, user_id) == <<pdf_id, user_id>> \notin likes

\* increment_download: INSERT OR IGNORE INTO downloads.
increment_download_rows(pdf_id, user_id) ==
    downloads \cup {<<pdf_id, user_id>>}

\* increment_download that moves the counter on every call.
increment_download_pdfs_mut(pdf_id, user_id) ==
    IF PdfExists(pdf_id)
    THEN [pdfs EXCEPT ![pdf_id].downloads_count = @ + 1]
    ELSE pdfs

\* increment_download: the counter moves when total_changes > 0.
increment_download_pdfs(pdf_id, user_id) ==
    IF <<pdf_id, user_id>> \notin downloads /\ PdfExists(pdf_id)
    THEN [pdfs EXCEPT ![pdf_id].downloads_count = @ + 1]
    ELSE pdfs

\* ------------------------------------------------- handlers.py: rendering

PAGE_SIZE == 5

\* A Python slice s[start:end] of a list.
PyIndex(i, n) == IF i < 0 THEN (IF i + n < 0 THEN 0 ELSE i + n)
                 ELSE (IF i > n THEN n ELSE i)

PySlice(s, start, end) ==
    SubSeq(s, PyIndex(start, Len(s)) + 1, PyIndex(end, Len(s)))

show_main_menu == <<Call("send_message", "MAIN_MENU")>>

show_tag_selection == <<Call("send_message", "TAG_SELECTION_PROMPT")>>

\* show_pdf_list: the ids of the listed entries, or NO_RESULTS.
show_pdf_list(results, page) ==
    LET page_pdfs == PySlice(results, (page - 1) * PAGE_SIZE,
                             (page - 1) * PAGE_SIZE + PAGE_SIZE)
    IN  IF page_pdfs = <<>>
        THEN <<Call("send_message", "NO_RESULTS")>>
        ELSE <<[op |-> "send_message", text |-> "PDF_LIST_HEADER",
                items |-> [i \in 1..Len(page_pdfs) |-> page_pdfs[i].id]]>>

show_pdf_detail(pdf_id) ==
    <<[op |-> "send_message", text |-> "PDF_DETAIL", items |-> <<pdf_id>>]>>

\* ------------------------------------------------ handlers.py: start_handler

\* start_handler that shows a returning user the menu and keeps the status.
start_handler_keep_mut(user_id, username, first_name) ==
    /\ IF get_user(user_id)
       THEN /\ users' = users
            /\ out' = show_main_menu
       ELSE /\ users' = set_user_status(
                            create_user(user_id, username, first_name),
                            user_id, AUTH_NAME)
            /\ out' = <<Call("send_message", "REGISTER_NAME")>>
    /\ UNCHANGED <<pdfs, tags, likes, downloads, session>>

\* start_handler with the status of a returning user cut short to "sys.menu".
start_handler_mut(user_id, username, first_name) ==
    /\ IF get_user(user_id)
       THEN /\ users' = set_user_status(users, user_id, <<"sys", "menu">>)
            /\ out' = show_main_menu
       ELSE /\ users' = set_user_status(
                            create_user(user_id, username, first_name),
                            user_id, AUTH_NAME)
            /\ out' = <<Call("send_message", "REGISTER_NAME")>>
    /\ UNCHANGED <<pdfs, tags, likes, downloads, session>>

start_handler(user_id, username, first_name) ==
    /\ IF get_user(user_id)
       THEN /\ users' = set_user_status(users, user_id, MENU_IDLE)
            /\ out' = show_main_menu
       ELSE /\ users' = set_user_status(
                            create_user(user_id, username, first_name),
                            user_id, AUTH_NAME)
            /\ out' = <<Call("send_message", "REGISTER_NAME")>>
    /\ UNCHANGED <<pdfs, tags, likes, downloads, session>>

\* ----------------------------------------- handlers.py: text_message_handler

\* register_step writing every answer to the full_name column.
register_step_mut(user_id, field, text_input, next_status) ==
    set_user_status(update_user(users, user_id, "full_name", text_input),
                    user_id, next_status)

\* One registration step: store the field, then advance the status.
register_step(user_id, field, text_input, next_status) ==
    set_user_status(update_user(users, user_id, field, text_input),
                    user_id, next_status)

text_message_handler(user_id, message_text) ==
    LET text_input == Strip(message_text)
        current_status == get_user_status(user_id)
    IN
    /\ UNCHANGED <<pdfs, tags, likes, downloads, pdf_upload_stage,
                   pdf_search_results>>
    /\ IF current_status = AUTH_NAME THEN
            /\ users' = register_step(user_id, "full_name", text_input, AUTH_REGION)
            /\ out' = <<Call("send_message", "REGISTER_REGION")>>
            /\ UNCHANGED search_selected_tags
       ELSE IF current_status = AUTH_REGION THEN
            /\ users' = register_step(user_id, "region", text_input, AUTH_SCHOOL)
            /\ out' = <<Call("send_message", "REGISTER_SCHOOL")>>
            /\ UNCHANGED search_selected_tags
       ELSE IF current_status = AUTH_SCHOOL THEN
            /\ users' = register_step(user_id, "school", text_input, AUTH_CLASS)
            /\ out' = <<Call("send_message", "REGISTER_CLASS")>>
            /\ UNCHANGED search_selected_tags
       ELSE IF current_status = AUTH_CLASS THEN
            /\ users' = register_step(user_id, "student_class", text_input, MENU_IDLE)
            /\ out' = <<Call("send_message", "REGISTER_COMPLETE")>> \o show_main_menu
            /\ UNCHANGED search_selected_tags
       ELSE IF current_status = MENU_IDLE THEN
            IF text_input = <<"Upload PDF">> THEN
                /\ users' = set_user_status(users, user_id, UPLOAD_FILE)
                /\ out' = <<Call("send_message", "UPLOAD_PROMPT")>>
                /\ UNCHANGED search_selected_tags
            ELSE IF text_input = <<"Search PDFs">> THEN
                /\ users' = set_user_status(users, user_id, SEARCH_SELECT)
                /\ search_selected_tags' = Put(search_selected_tags, user_id, <<>>)
                /\ out' = show_tag_selection
            ELSE IF text_input = <<"My Downloads">> THEN
                /\ out' = <<Call("send_message", "Coming soon!")>>
                /\ UNCHANGED <<users, search_selected_tags>>
            ELSE
                /\ out' = <<Call("send_message", "INVALID_OPTION")>>
                /\ UNCHANGED <<users, search_selected_tags>>
       ELSE IF Len(current_status) >= 2 /\ current_status[1] = "upload" THEN
            /\ out' = <<Call("send_message", "UPLOAD_EXPECT_FILE")>>
            /\ UNCHANGED <<users, search_selected_tags>>
       ELSE IF Len(current_status) >= 2 /\ current_status[1] = "search" THEN
            /\ out' = <<Call("send_message", "SEARCH_USE_BUTTONS")>>
            /\ UNCHANGED <<users, search_selected_tags>>
       ELSE IF Len(current_status) >= 2 /\ current_status[1] = "view" THEN
            /\ out' = <<Call("send_message", "VIEW_USE_BUTTONS")>>
            /\ UNCHANGED <<users, search_selected_tags>>
       ELSE
            /\ users' = set_user_status(users, user_id, MENU_IDLE)
            /\ out' = show_main_menu
            /\ UNCHANGED search_selected_tags

\* --------------------------------------------- handlers.py: document_handler

\* document_handler without the mime_type check.
document_handler_mut(user_id, mime_type, file_id, file_name) ==
    LET current_status == get_user_status(user_id) IN
    /\ UNCHANGED <<pdfs, tags, likes, downloads, search_selected_tags,
                   pdf_search_results>>
    /\ IF current_status # UPLOAD_FILE THEN
            /\ out' = <<Call("reply_to", "UPLOAD_NOT_EXPECTED")>>
            /\ UNCHANGED <<users, pdf_upload_stage>>
       ELSE
            /\ pdf_upload_stage' = Put(pdf_upload_stage, user_id,
                    [file_id |-> file_id, file_name |-> file_name, tags |-> <<>>])
            /\ users' = set_user_status(users, user_id, UPLOAD_TAGS)
            /\ out' = show_tag_selection

document_handler(user_id, mime_type, file_id, file_name) ==
    LET current_status == get_user_status(user_id) IN
    /\ UNCHANGED <<pdfs, tags, likes, downloads, search_selected_tags,
                   pdf_search_results>>
    /\ IF current_status # UPLOAD_FILE THEN
            /\ out' = <<Call("reply_to", "UPLOAD_NOT_EXPECTED")>>
            /\ UNCHANGED <<users, pdf_upload_stage>>
       ELSE IF mime_type # "application/pdf" THEN
            /\ out' = <<Call("reply_to", "UPLOAD_ONLY_PDF")>>
            /\ UNCHANGED <<users, pdf_upload_stage>>
       ELSE
            /\ pdf_upload_stage' = Put(pdf_upload_stage, user_id,
                    [file_id |-> file_id, file_name |-> file_name, tags |-> <<>>])
            /\ users' = set_user_status(users, user_id, UPLOAD_TAGS)
            /\ out' = show_tag_selection

\* --------------------------------------------- handlers.py: callback_handler

\* data.startswith(prefix + "_"), prefix given by its parts.
HasPrefix(data, prefix) ==
    Len(data) > Len(prefix) /\ SubSeq(data, 1, Len(prefix)) = prefix

\* data.replace(prefix + "_", "", 1): what follows the prefix. The callback
\* data of the keyboards carry one part after the prefix.
ArgOf(data, prefix) == data[Len(prefix) + 1]

\* bot_instance.answer_callback_query(call.id), the first call of the handler.
Answer == <<Call("answer_callback_query", "")>>

\* A toggle that appends the tag whether or not the list holds it.
ToggleTag_mut(tag_list, tag) == Append(tag_list, tag)

\* The toggle of a tag in a list of tags.
ToggleTag(tag_list, tag) ==
    IF tag \in Range(tag_list) THEN RemoveFirst(tag_list, tag)
    ELSE Append(tag_list, tag)

\* A session-lost exit that reports the loss and keeps the status.
session_lost_mut(user_id) ==
    /\ out' = Answer \o <<Call("send_message", "SESSION_EXPIRED")>> \o show_main_menu
    /\ UNCHANGED <<db, session>>

\* The session-lost exit of the upload callbacks.
session_lost(user_id) ==
    /\ users' = set_user_status(users, user_id, MENU_IDLE)
    /\ out' = Answer \o <<Call("send_message", "SESSION_EXPIRED")>> \o show_main_menu
    /\ UNCHANGED <<pdfs, tags, likes, downloads, session>>

\* The "not allowed" exit of a callback received in the wrong status.
not_allowed ==
    /\ out' = Answer \o <<Call("send_message", "ACTION_NOT_ALLOWED")>>
    /\ UNCHANGED <<db, session>>

\* A branch that returns without doing anything more.
silent_return ==
    /\ out' = Answer
    /\ UNCHANGED <<db, session>>

cb_upload_tag(user_id, data) ==
    IF get_user_status(user_id) # UPLOAD_TAGS THEN not_allowed
    ELSE IF user_id \notin DOMAIN pdf_upload_stage THEN session_lost(user_id)
    ELSE
        /\ pdf_upload_stage' =
              [pdf_upload_stage EXCEPT ![user_id].tags =
                    ToggleTag(@, ArgOf(data, <<"upload", "tag">>))]
        /\ out' = Answer \o <<Call("edit_message_reply_markup", "")>>
        /\ UNCHANGED <<db, search_selected_tags, pdf_search_results>>

\* upload_done without the check for at least one tag.
cb_upload_done_mut(user_id) ==
    IF get_user_status(user_id) # UPLOAD_TAGS THEN not_allowed
    ELSE IF user_id \notin DOMAIN pdf_upload_stage THEN session_lost(user_id)
    ELSE LET upload == pdf_upload_stage[user_id] IN
        /\ pdfs' = add_pdf_row(user_id, upload.file_id, upload.file_name)
        /\ tags' = add_pdf_tags(Len(pdfs) + 1, upload.tags)
        /\ pdf_upload_stage' = Drop(pdf_upload_stage, user_id)
        /\ users' = set_user_status(users, user_id, MENU_IDLE)
        /\ out' = Answer \o <<Call("edit_message_text", "UPLOAD_SUCCESS")>>
                    \o show_main_menu
        /\ UNCHANGED <<likes, downloads, search_selected_tags,
                       pdf_search_results>>

cb_upload_done(user_id) ==
    IF get_user_status(user_id) # UPLOAD_TAGS THEN not_allowed
    ELSE IF user_id \notin DOMAIN pdf_upload_stage THEN session_lost(user_id)
    ELSE LET upload == pdf_upload_stage[user_id] IN
        IF upload.tags = <<>> THEN
            /\ out' = Answer \o <<Call("answer_callback_query", "TAG_REQUIRED")>>
            /\ UNCHANGED <<db, session>>
        ELSE IF add_pdf_raises(upload.tags) THEN
            \* sqlite3.IntegrityError leaves the handler; add_pdf is rolled back
            /\ out' = Answer
            /\ UNCHANGED <<db, session>>
        ELSE
            /\ pdfs' = add_pdf_row(user_id, upload.file_id, upload.file_name)
            /\ tags' = add_pdf_tags(Len(pdfs) + 1, upload.tags)
            /\ pdf_upload_stage' = Drop(pdf_upload_stage, user_id)
            /\ users' = set_user_status(users, user_id, MENU_IDLE)
            /\ out' = Answer \o <<Call("edit_message_text", "UPLOAD_SUCCESS")>>
                        \o show_main_menu
            /\ UNCHANGED <<likes, downloads, search_selected_tags,
                           pdf_search_results>>

\* upload_cancel that leaves the draft in pdf_upload_stage.
cb_upload_cancel_mut(user_id) ==
    IF get_user_status(user_id) \in {UPLOAD_TAGS, UPLOAD_FILE} THEN
        /\ users' = set_user_status(users, user_id, MENU_IDLE)
        /\ out' = Answer \o <<Call("edit_message_text", "UPLOAD_CANCELLED")>>
                    \o show_main_menu
        /\ UNCHANGED <<pdfs, tags, likes, downloads, session>>
    ELSE silent_return

cb_upload_cancel(user_id) ==
    IF get_user_status(user_id) \in {UPLOAD_TAGS, UPLOAD_FILE} THEN
        /\ pdf_upload_stage' = Drop(pdf_upload_stage, user_id)
        /\ users' = set_user_status(users, user_id, MENU_IDLE)
        /\ out' = Answer \o <<Call("edit_message_text", "UPLOAD_CANCELLED")>>
                    \o show_main_menu
        /\ UNCHANGED <<pdfs, tags, likes, downloads, search_selected_tags,
                       pdf_search_results>>
    ELSE silent_return

cb_search_tag(user_id, data) ==
    IF get_user_status(user_id) # SEARCH_SELECT THEN not_allowed
    ELSE LET filters == IF user_id \in DOMAIN search_selected_tags
                        THEN search_selected_tags[user_id] ELSE <<>>
         IN
        /\ search_selected_tags' = Put(search_selected_tags, user_id,
                ToggleTag(filters, ArgOf(data, <<"search", "tag">>)))
        /\ out' = Answer \o <<Call("edit_message_reply_markup", "")>>
        /\ UNCHANGED <<db, pdf_upload_stage, pdf_search_results>>

\* search_apply that shows the result page whether or not anything was found.
cb_search_apply_mut(user_id) ==
    IF get_user_status(user_id) # SEARCH_SELECT THEN not_allowed
    ELSE LET filters == IF user_id \in DOMAIN search_selected_tags
                        THEN search_selected_tags[user_id] ELSE <<>>
             results == get_pdfs_by_multilevel_tags(filters)
         IN
        IF filters = <<>> THEN
            /\ out' = Answer \o <<Call("answer_callback_query", "SEARCH_REQUIRED_TAG")>>
            /\ UNCHANGED <<db, session>>
        ELSE
            /\ pdf_search_results' = Put(pdf_search_results, user_id, results)
            /\ users' = set_user_status(users, user_id, SEARCH_RESULTS)
            /\ out' = Answer \o show_pdf_list(results, 1)
                        \o <<Call("delete_message", "")>>
            /\ UNCHANGED <<pdfs, tags, likes, downloads, pdf_upload_stage,
                           search_selected_tags>>

cb_search_apply(user_id) ==
    IF get_user_status(user_id) # SEARCH_SELECT THEN not_allowed
    ELSE LET filters == IF user_id \in DOMAIN search_selected_tags
                        THEN search_selected_tags[user_id] ELSE <<>>
             results == get_pdfs_by_multilevel_tags(filters)
         IN
        IF filters = <<>> THEN
            /\ out' = Answer \o <<Call("answer_callback_query", "SEARCH_REQUIRED_TAG")>>
            /\ UNCHANGED <<db, session>>
        ELSE
            /\ pdf_search_results' = Put(pdf_search_results, user_id, results)
            /\ UNCHANGED <<pdfs, tags, likes, downloads, pdf_upload_stage>>
            /\ IF results = <<>> THEN
                    /\ search_selected_tags' = Drop(search_selected_tags, user_id)
                    /\ users' = set_user_status(users, user_id, MENU_IDLE)
                    /\ out' = Answer \o <<Call("edit_message_text", "NO_RESULTS")>>
                                \o show_main_menu
               ELSE
                    /\ users' = set_user_status(users, user_id, SEARCH_RESULTS)
                    /\ out' = Answer \o show_pdf_list(results, 1)
                                \o <<Call("delete_message", "")>>
                    /\ UNCHANGED search_selected_tags

cb_search_cancel(user_id) ==
    IF get_user_status(user_id) = SEARCH_SELECT THEN
        /\ search_selected_tags' = Drop(search_selected_tags, user_id)
        /\ users' = set_user_status(users, user_id, MENU_IDLE)
        /\ out' = Answer \o <<Call("edit_message_text", "SEARCH_CANCELLED")>>
                    \o show_main_menu
        /\ UNCHANGED <<pdfs, tags, likes, downloads, pdf_upload_stage,
                       pdf_search_results>>
    ELSE silent_return

cb_page(user_id, data) ==
    IF get_user_status(user_id) # SEARCH_RESULTS THEN not_allowed
    ELSE IF Len(data) # 2 THEN silent_return
    ELSE IF ~IsInt(data[2]) THEN silent_return
    ELSE LET results == IF user_id \in DOMAIN pdf_search_results
                        THEN pdf_search_results[user_id] ELSE <<>>
         IN
        IF results = <<>> THEN
            /\ users' = set_user_status(users, user_id, MENU_IDLE)
            /\ out' = Answer \o show_main_menu
            /\ UNCHANGED <<pdfs, tags, likes, downloads, session>>
        ELSE
            /\ out' = Answer \o show_pdf_list(results, IntOf[data[2]])
            /\ UNCHANGED <<db, session>>

cb_view(user_id, data) ==
    LET pdf_id_str == ArgOf(data, <<"view">>) IN
    IF ~IsInt(pdf_id_str) THEN silent_return
    ELSE IF ~get_pdf_details(IntOf[pdf_id_str]) THEN
        /\ out' = Answer \o <<Call("send_message", "PDF_NOT_FOUND")>>
        /\ UNCHANGED <<db, session>>
    ELSE
        /\ users' = set_user_status(users, user_id, VIEW_PAGE)
        /\ out' = Answer \o show_pdf_detail(IntOf[pdf_id_str])
        /\ UNCHANGED <<pdfs, tags, likes, downloads, session>>

cb_like(user_id, data) ==
    LET pdf_id_str == ArgOf(data, <<"like">>) IN
    IF ~IsInt(pdf_id_str) THEN silent_return
    ELSE LET pdf_id == IntOf[pdf_id_str] IN
        /\ likes' = toggle_like_rows(pdf_id, user_id)
        /\ pdfs' = toggle_like_pdfs(pdf_id, user_id)
        /\ out' = IF get_pdf_details(pdf_id)
                  THEN Answer \o <<Call("edit_message_reply_markup",
                                        IF toggle_like_result(pdf_id, user_id)
                                        THEN "Unlike" ELSE "Like"),
                                   Call("answer_callback_query", "LIKE_UPDATED")>>
                  ELSE Answer
        /\ UNCHANGED <<users, tags, downloads, session>>

cb_download(user_id, data) ==
    LET pdf_id_str == ArgOf(data, <<"download">>) IN
    IF ~IsInt(pdf_id_str) THEN silent_return
    ELSE LET pdf_id == IntOf[pdf_id_str] IN
        IF get_pdf_file_id(pdf_id) # "" THEN
            /\ downloads' = increment_download_rows(pdf_id, user_id)
            /\ pdfs' = increment_download_pdfs(pdf_id, user_id)
            /\ out' = Answer \o <<Call("send_document", get_pdf_file_id(pdf_id))>>
            /\ UNCHANGED <<users, tags, likes, session>>
        ELSE
            /\ out' = Answer \o <<Call("send_message", "PDF_NOT_FOUND")>>
            /\ UNCHANGED <<db, session>>

\* back_to_menu that leaves the result cache in pdf_search_results.
cb_back_to_menu_mut(user_id) ==
    /\ pdf_upload_stage' = Drop(pdf_upload_stage, user_id)
    /\ search_selected_tags' = Drop(search_selected_tags, user_id)
    /\ users' = set_user_status(users, user_id, MENU_IDLE)
    /\ out' = Answer \o show_main_menu \o <<Call("delete_message", "")>>
    /\ UNCHANGED <<pdfs, tags, likes, downloads, pdf_search_results>>

cb_back_to_menu(user_id) ==
    /\ pdf_upload_stage' = Drop(pdf_upload_stage, user_id)
    /\ search_selected_tags' = Drop(search_selected_tags, user_id)
    /\ pdf_search_results' = Drop(pdf_search_results, user_id)
    /\ users' = set_user_status(users, user_id, MENU_IDLE)
    /\ out' = Answer \o show_main_menu \o <<Call("delete_message", "")>>
    /\ UNCHANGED <<pdfs, tags, likes, downloads>>

\* The else branch: logger.warning("Unhandled callback data ...").
cb_unhandled == silent_return

callback_handler(user_id, data) ==
    IF HasPrefix(data, <<"upload", "tag">>) THEN cb_upload_tag(user_id, data)
    ELSE IF data = <<"upload", "done">> THEN cb_upload_done(user_id)
    ELSE IF data = <<"upload", "cancel">> THEN cb_upload_cancel(user_id)
    ELSE IF HasPrefix(data, <<"search", "tag">>) THEN cb_search_tag(user_id, data)
    ELSE IF data = <<"search", "apply">> THEN cb_search_apply(user_id)
    ELSE IF data = <<"search", "cancel">> THEN cb_search_cancel(user_id)
    ELSE IF HasPrefix(data, <<"page">>) THEN cb_page(user_id, data)
    ELSE IF HasPrefix(data, <<"view">>) THEN cb_view(user_id, data)
    ELSE IF HasPrefix(data, <<"like">>) THEN cb_like(user_id, data)
    ELSE IF HasPrefix(data, <<"download">>) THEN cb_download(user_id, data)
    ELSE IF data = <<"back", "to", "menu">> THEN cb_back_to_menu(user_id)
    ELSE cb_unhandled

\* ------------------------------------------------------ bot.py: the routing

\* allowed_domain without the view_ prefix.
allowed_domain_mut(callback_data) ==
    IF HasPrefix(callback_data, <<"upload">>) THEN "upload"
    ELSE IF HasPrefix(callback_data, <<"search">>) THEN "search"
    ELSE IF HasPrefix(callback_data, <<"auth">>) THEN "auth"
    ELSE IF HasPrefix(callback_data, <<"sys">>) THEN "sys"
    ELSE ""

\* handle_callback: the domain a callback's prefix asks for, "" for none.
allowed_domain(callback_data) ==
    IF HasPrefix(callback_data, <<"upload">>) THEN "upload"
    ELSE IF HasPrefix(callback_data, <<"search">>) THEN "search"
    ELSE IF HasPrefix(callback_data, <<"view">>) THEN "view"
    ELSE IF HasPrefix(callback_data, <<"auth">>) THEN "auth"
    ELSE IF HasPrefix(callback_data, <<"sys">>) THEN "sys"
    ELSE ""

\* current_status.startswith(allowed_domain): every status the code writes has
\* the domain as its whole first segment.
status_in_domain(current_status, domain) ==
    current_status # <<>> /\ current_status[1] = domain

handle_callback(user_id, callback_data) ==
    LET current_status == get_user_status(user_id) IN
    IF current_status = NoStatus THEN
        /\ out' = <<Call("answer_callback_query",
                         "Please start the bot with /start first.")>>
        /\ UNCHANGED <<db, session>>
    ELSE IF allowed_domain(callback_data) # ""
            /\ ~status_in_domain(current_status, allowed_domain(callback_data)) THEN
        /\ out' = <<Call("answer_callback_query",
                         "This action is not allowed right now.")>>
        /\ UNCHANGED <<db, session>>
    ELSE callback_handler(user_id, callback_data)

\* handle_start: commands=['start'].
handle_start(user_id, username, first_name) ==
    start_handler(user_id, username, first_name)

\* A text message that is no /start command: handle_text takes it when it is
\* non-empty and does not start with "/", fallback_handler otherwise.
handle_text(user_id, message_text) ==
    IF message_text # <<>> /\ Head(message_text) # "/"
    THEN text_message_handler(user_id, message_text)
    ELSE /\ out' = <<Call("reply_to", "I don't understand that command.")>>
         /\ UNCHANGED <<db, session>>

handle_document(user_id, mime_type, file_id, file_name) ==
    document_handler(user_id, mime_type, file_id, file_name)

\* ------------------------------------------------------------- the updates

\* Each update is handled to completion before the next one (one at a time).

Update(kind, user_id, data) == [kind |-> kind, user |-> user_id, data |-> data]

\* message.from_user.username / first_name of the Telegram account.
Username == <<>>
FirstName == <<"tg">>

StartCommand(user_id) ==
    /\ ev' = Update("start", user_id, <<>>)
    /\ handle_start(user_id, Username, FirstName)
    /\ UNCHANGED threads

TextMessage(user_id, message_text) ==
    /\ ev' = Update("text", user_id, message_text)
    /\ handle_text(user_id, message_text)
    /\ UNCHANGED threads

DocumentMessage(user_id, mime_type, file_id, file_name) ==
    /\ ev' = Update("document", user_id, <<mime_type, file_id, file_name>>)
    /\ handle_document(user_id, mime_type, file_id, file_name)
    /\ UNCHANGED threads

CallbackQuery(user_id, data) ==
    /\ ev' = Update("callback", user_id, data)
    /\ handle_callback(user_id, data)
    /\ UNCHANGED threads

\* The process is restarted: the module-level dicts of handlers.py start
\* empty, the SQLite file is kept.
Restart ==
    /\ ev' = Update("restart", 0, <<>>)
    /\ out' = <<>>
    /\ pdf_upload_stage' = EmptyDict
    /\ search_selected_tags' = EmptyDict
    /\ pdf_search_results' = EmptyDict
    /\ threads' = NoThreads
    /\ UNCHANGED db

\* init_db() on a new database file, and the dicts of handlers.py.
Init ==
    /\ users = EmptyDict
    /\ pdfs = <<>>
    /\ tags = {}
    /\ likes = {}
    /\ downloads = {}
    /\ pdf_upload_stage = EmptyDict
    /\ search_selected_tags = EmptyDict
    /\ pdf_search_results = EmptyDict
    /\ ev = Update("none", 0, <<>>)
    /\ out = <<>>
    /\ threads = NoThreads

\* The user is in the registration dialogue.
Registering(user_id) ==
    get_user_status(user_id) \in {AUTH_NAME, AUTH_REGION, AUTH_SCHOOL, AUTH_CLASS}

\* The pdfs table is let to grow to `cap` rows: an upload_done is delivered
\* while it is smaller.
Deliverable(data, cap) == data = <<"upload", "done">> => Len(pdfs) < cap

\* <<mime_type, file_id, file_name>>
Documents == {<<"application/pdf", "file1", "a.pdf">>,
              <<"image/png", "file2", "b.png">>}

\* ------------------------------------------------ Spec: the whole bot
\* One user, one tag of the catalog, every kind of update in every status.
\* The prompts of the registration dialogue are answered with one name.

Users == {1}

\* Part of the catalog of buttons.py (ALL_TAGS).
Tags == {"subject:math"}

NameTexts == {<<" ", "Amina", " ">>, <<"/", "help">>}

Texts == {<<"Upload PDF">>, <<"Search PDFs">>, <<"My Downloads">>,
          <<" ", "Amina", " ">>, <<"/", "help">>}

PdfArgs == {"1", "x"}

Callbacks ==
    {<<"upload", "tag", t>> : t \in Tags} \cup {<<"search", "tag", t>> : t \in Tags}
    \cup {<<"upload", "done">>, <<"upload", "cancel">>,
          <<"search", "apply">>, <<"search", "cancel">>,
          <<"back", "to", "menu">>, <<"back", "to", "results">>, <<"noop">>,
          <<"auth", "x">>, <<"sys", "x">>}
    \cup {<<p, a>> : p \in {"view", "like", "download"}, a \in PdfArgs}
    \cup {<<"page", "1">>, <<"page", "x">>}

Next ==
    \/ \E u \in Users : StartCommand(u)
    \/ \E u \in Users :
         \E t \in (IF Registering(u) THEN NameTexts ELSE Texts) : TextMessage(u, t)
    \/ \E u \in Users, d \in Documents : DocumentMessage(u, d[1], d[2], d[3])
    \/ \E u \in Users, c \in Callbacks :
         Deliverable(c, MaxPdfs) /\ CallbackQuery(u, c)

Spec == Init /\ [][Next]_vars

\* ------------------------------------------------ SpecReg: registration
\* One user who answers the prompts with any of several texts, some with
\* whitespace around them, and who may press a stale "Back to Menu" button.

RegUsers == {1}

RegTexts == {<<" ", "Amina", " ">>, <<"Hargeisa">>, <<"Al-Noor", " ">>,
             <<"Form 3">>, <<"/", "help">>}

RegCallbacks == {<<"back", "to", "menu">>, <<"noop">>}

NextReg ==
    \/ \E u \in RegUsers : StartCommand(u)
    \/ \E u \in RegUsers, t \in RegTexts : TextMessage(u, t)
    \/ \E u \in RegUsers, c \in RegCallbacks : CallbackQuery(u, c)

SpecReg == Init /\ [][NextReg]_vars

\* ------------------------------------------------ SpecEngine: handlers.py
\* The handlers of handlers.py with callback_handler entered directly, as a
\* caller of the module enters it, without the prefix filter of
\* bot.handle_callback. One user, one tag; the user answers the prompts with
\* one name and presses the buttons of the upload, search and view dialogues.

EngineCallback(user_id, data) ==
    /\ ev' = Update("callback", user_id, data)
    /\ callback_handler(user_id, data)
    /\ UNCHANGED threads

EngineTexts == {<<"Upload PDF">>, <<"Search PDFs">>}

EngineCallbacks ==
    {<<"upload", "tag", "subject:math">>, <<"upload", "done">>,
     <<"search", "tag", "subject:math">>, <<"search", "apply">>,
     <<"page", "1">>, <<"view", "1">>, <<"like", "1">>, <<"download", "1">>,
     <<"back", "to", "results">>, <<"back", "to", "menu">>}

NextEngine ==
    \/ \E u \in Users : StartCommand(u)
    \/ \E u \in Users :
         \E t \in (IF Registering(u) THEN {<<"Amina">>} ELSE EngineTexts) :
            TextMessage(u, t)
    \/ \E u \in Users : DocumentMessage(u, "application/pdf", "file1", "a.pdf")
    \/ \E u \in Users, c \in EngineCallbacks :
         Deliverable(c, MaxPdfs) /\ EngineCallback(u, c)

SpecEngine == Init /\ [][NextEngine]_vars

\* ------------------------------------------------ SpecUpload: uploads
\* Two users who send /start once, register and upload: the menu button, a
\* document, the tag buttons of the upload keyboard, Done and Cancel.

UploadUsers == {1, 2}

UploadTags == {"subject:math", "exam:final"}

UploadCallbacks ==
    {<<"upload", "tag", t>> : t \in UploadTags}
    \cup {<<"upload", "done">>, <<"upload", "cancel">>}

NextUpload ==
    \/ \E u \in UploadUsers : ~get_user(u) /\ StartCommand(u)
    \/ \E u \in UploadUsers :
         \E t \in (IF Registering(u) THEN {<<"Amina">>} ELSE {<<"Upload PDF">>}) :
            TextMessage(u, t)
    \/ \E u \in UploadUsers, d \in Documents : DocumentMessage(u, d[1], d[2], d[3])
    \/ \E u \in UploadUsers, c \in UploadCallbacks :
         Deliverable(c, MaxPdfs) /\ CallbackQuery(u, c)

SpecUpload == Init /\ [][NextUpload]_vars

\* ------------------------------------------------ SpecSearch: searches
\* One user who sends /start once, registers, uploads documents under two
\* tags and searches: the tag buttons of the search keyboard, Apply, Cancel
\* and a page button.

\* Largest number of rows of the pdfs table in SpecSearch.
MaxSearchPdfs == 2

SearchCallbacks ==
    {<<"upload", "tag", t>> : t \in UploadTags}
    \cup {<<"search", "tag", t>> : t \in UploadTags}
    \cup {<<"upload", "done">>, <<"search", "apply">>, <<"search", "cancel">>,
          <<"page", "1">>}

NextSearch ==
    \/ \E u \in Users : ~get_user(u) /\ StartCommand(u)
    \/ \E u \in Users :
         \E t \in (IF Registering(u) THEN {<<"Amina">>}
                   ELSE {<<"Upload PDF">>, <<"Search PDFs">>}) :
            TextMessage(u, t)
    \/ \E u \in Users : DocumentMessage(u, "application/pdf", "file1", "a.pdf")
    \/ \E u \in Users, c \in SearchCallbacks :
         Deliverable(c, MaxSearchPdfs) /\ CallbackQuery(u, c)

SpecSearch == Init /\ [][NextSearch]_vars

\* ------------------------------------------------ SpecQuery: the tag query
\* get_pdfs_by_multilevel_tags on its own: the pdfs and tags tables hold any
\* documents with any tags of QueryTags, and search_apply of user 1 is about
\* to run the query (handlers.py lines 325-326) with any filter list that
\* names no tag twice.

\* Largest number of rows of the pdfs table in SpecQuery.
MaxQueryPdfs == 2

QueryTags == {"subject:math", "exam:final", "year:2021"}

\* The lists over QueryTags without repetition.
QueryFilters ==
    UNION {{f \in [1..n -> QueryTags] : Cardinality(Range(f)) = n} :
           n \in 0..Cardinality(QueryTags)}

StoredPdfs(n) ==
    [i \in 1..n |-> [id |-> i, user_id |-> 1, file_id |-> "file1",
                     file_name |-> "a.pdf", likes_count |-> 0,
                     downloads_count |-> 0]]

InitQuery ==
    /\ users = EmptyDict
    /\ pdfs \in {StoredPdfs(n) : n \in 0..MaxQueryPdfs}
    /\ tags \in SUBSET ((1..Len(pdfs)) \X QueryTags)
    /\ likes = {}
    /\ downloads = {}
    /\ pdf_upload_stage = EmptyDict
    /\ search_selected_tags = EmptyDict
    /\ pdf_search_results = EmptyDict
    /\ ev \in {Update("query", 1, f) : f \in QueryFilters}
    /\ out = <<>>
    /\ threads = NoThreads

\* results = db.get_pdfs_by_multilevel_tags(filters);
\* pdf_search_results[user_id] = results
RunQuery ==
    /\ ev.kind = "query"
    /\ pdf_search_results' =
          Put(pdf_search_results, ev.user, get_pdfs_by_multilevel_tags(ev.data))
    /\ ev' = Update("result", ev.user, ev.data)
    /\ UNCHANGED <<db, pdf_upload_stage, search_selected_tags, out, threads>>

NextQuery == RunQuery

SpecQuery == InitQuery /\ [][NextQuery]_vars

\* ------------------------------------------------ SpecCounters: likes, downloads
\* Two users who send /start once; user 1 registers and uploads under one tag;
\* both press Like and Download buttons naming documents 1 and 2, at any time.

\* Largest number of rows of the pdfs table in SpecCounters.
MaxCounterPdfs == 1

CounterUsers == {1, 2}

CounterCallbacks ==
    {<<"upload", "tag", "subject:math">>, <<"upload", "done">>}

CounterPdfArgs == {"1", "2"}

CounterButtons ==
    {<<"like", a>> : a \in CounterPdfArgs}
    \cup {<<"download", a>> : a \in CounterPdfArgs}

NextCounters ==
    \/ \E u \in CounterUsers : ~get_user(u) /\ StartCommand(u)
    \/ \E t \in (IF Registering(1) THEN {<<"Amina">>} ELSE {<<"Upload PDF">>}) :
            TextMessage(1, t)
    \/ DocumentMessage(1, "application/pdf", "file1", "a.pdf")
    \/ \E c \in CounterCallbacks :
         Deliverable(c, MaxCounterPdfs) /\ CallbackQuery(1, c)
    \/ \E u \in CounterUsers, c \in CounterButtons : CallbackQuery(u, c)

SpecCounters == Init /\ [][NextCounters]_vars

\* ------------------------------------------------ SpecRestart: lost sessions
\* One user who sends /start once, registers, uploads and searches under two
\* tags, while the process may be restarted between any two updates.

\* Largest number of rows of the pdfs table in SpecRestart.
MaxRestartPdfs == 1

RestartCallbacks ==
    {<<"upload", "tag", t>> : t \in UploadTags}
    \cup {<<"search", "tag", t>> : t \in UploadTags}
    \cup {<<"upload", "done">>, <<"upload", "cancel">>,
          <<"search", "apply">>, <<"search", "cancel">>}

NextRestart ==
    \/ \E u \in Users : ~get_user(u) /\ StartCommand(u)
    \/ \E u \in Users :
         \E t \in (IF Registering(u) THEN {<<"Amina">>}
                   ELSE {<<"Upload PDF">>, <<"Search PDFs">>}) :
            TextMessage(u, t)
    \/ \E u \in Users, d \in Documents : DocumentMessage(u, d[1], d[2], d[3])
    \/ \E u \in Users, c \in RestartCallbacks :
         Deliverable(c, MaxRestartPdfs) /\ CallbackQuery(u, c)
    \/ Restart

SpecRestart == Init /\ [][NextRestart]_vars

\* ------------------------------------------------ SpecFailure: store failures
\* A call of database.py may raise (sqlite3.OperationalError: the file is
\* locked, the disk is full). get_db rolls back the transaction of the failing
\* call only; the calls a handler made before it have committed, each in a
\* transaction of its own, and the exception leaves the handler.

\* The store calls of a registration step, in the order the handler makes them.
RegisterCalls == {"get_user_status", "update_user", "set_user_status"}

\* The store calls of an accepted upload_done, in order; get_user_status is
\* called by bot.handle_callback and again by callback_handler.
UploadDoneCalls == {"get_user_status", "add_pdf", "set_user_status"}

RegisterField(status) ==
    IF status = AUTH_NAME THEN "full_name"
    ELSE IF status = AUTH_REGION THEN "region"
    ELSE IF status = AUTH_SCHOOL THEN "school"
    ELSE "student_class"

\* text_message_handler in a registration status, the call failed_call raising.
text_message_handler_fails(user_id, message_text, failed_call) ==
    /\ Registering(user_id)
    /\ message_text # <<>> /\ Head(message_text) # "/"
    /\ users' = IF failed_call = "set_user_status"
                THEN update_user(users, user_id,
                                 RegisterField(get_user_status(user_id)),
                                 Strip(message_text))
                ELSE users
    /\ out' = <<>>
    /\ UNCHANGED <<pdfs, tags, likes, downloads, session>>

\* callback_handler's upload_done past the tag check, failed_call raising.
cb_upload_done_fails(user_id, failed_call) ==
    /\ get_user_status(user_id) = UPLOAD_TAGS
    /\ user_id \in DOMAIN pdf_upload_stage
    /\ pdf_upload_stage[user_id].tags # <<>>
    /\ ~add_pdf_raises(pdf_upload_stage[user_id].tags)
    /\ LET upload == pdf_upload_stage[user_id] IN
       IF failed_call = "set_user_status" THEN
            /\ pdfs' = add_pdf_row(user_id, upload.file_id, upload.file_name)
            /\ tags' = add_pdf_tags(Len(pdfs) + 1, upload.tags)
            /\ pdf_upload_stage' = Drop(pdf_upload_stage, user_id)
            /\ out' = Answer
            /\ UNCHANGED <<users, likes, downloads, search_selected_tags,
                           pdf_search_results>>
       ELSE
            /\ out' = IF failed_call = "add_pdf" THEN Answer ELSE <<>>
            /\ UNCHANGED <<db, session>>

FailingTextMessage(user_id, message_text, failed_call) ==
    /\ ev' = Update("text.fail", user_id, message_text)
    /\ text_message_handler_fails(user_id, message_text, failed_call)
    /\ UNCHANGED threads

FailingUploadDone(user_id, failed_call) ==
    /\ ev' = Update("callback.fail", user_id, <<"upload", "done">>)
    /\ cb_upload_done_fails(user_id, failed_call)
    /\ UNCHANGED threads

\* Largest number of rows of the pdfs table in SpecFailure.
MaxFailurePdfs == 2

\* One user who sends /start once, registers and uploads under two tags; any
\* store call of a registration step or of upload_done may fail.
NextFailure ==
    \/ \E u \in Users : ~get_user(u) /\ StartCommand(u)
    \/ \E u \in Users :
         \E t \in (IF Registering(u) THEN {<<"Amina", " ">>}
                   ELSE {<<"Upload PDF">>}) :
            TextMessage(u, t)
    \/ \E u \in Users : DocumentMessage(u, "application/pdf", "file1", "a.pdf")
    \/ \E u \in Users, c \in UploadCallbacks :
         Deliverable(c, MaxFailurePdfs) /\ CallbackQuery(u, c)
    \/ \E u \in Users, c \in RegisterCalls :
         FailingTextMessage(u, <<"Amina", " ">>, c)
    \/ \E u \in Users, c \in UploadDoneCalls :
         Len(pdfs) < MaxFailurePdfs /\ FailingUploadDone(u, c)

SpecFailure == Init /\ [][NextFailure]_vars

\* ------------------------------------------------ SpecLikeRace: concurrent likes
\* Two worker threads run toggle_like statement by statement, each on a
\* connection of its own. The SELECT reads the committed tables. The first
\* INSERT or DELETE opens the transaction and takes SQLite's write lock, which
\* another connection's write waits for (sqlite3.connect waits 5 seconds);
\* what the transaction wrote shows to other connections at its commit.

AllIdle == \A t \in ThreadIds : threads[t].pc = "idle"

SetThread(t, pc, user_id, data, local) ==
    [threads EXCEPT ![t] = [pc |-> pc, user |-> user_id, data |-> data,
                            local |-> local]]

\* Another thread is inside a write transaction on the database file.
WriteLocked(t) ==
    \E o \in ThreadIds \ {t} : threads[o].pc \in {"like.update"}

\* A like_<id> callback is handed to the idle thread t; bot.handle_callback
\* lets it through for a user with a status, and callback_handler parses the
\* id and calls toggle_like.
LikeArrives(t, user_id, pdf_id_str) ==
    /\ threads[t].pc = "idle"
    /\ get_user(user_id)
    /\ IsInt(pdf_id_str)
    /\ threads' = SetThread(t, "like.select", user_id, <<"like", pdf_id_str>>, <<>>)
    /\ ev' = Update("callback", user_id, <<"like", pdf_id_str>>)
    /\ out' = Answer
    /\ UNCHANGED <<db, session>>

\* existing = SELECT 1 FROM likes WHERE pdf_id = ? AND user_id = ?
toggle_like_select(t) ==
    LET th == threads[t]
        row == <<IntOf[th.data[2]], th.user>>
    IN  /\ th.pc = "like.select"
        /\ threads' = SetThread(t, "like.write", th.user, th.data,
                                <<row \in likes>>)
        /\ UNCHANGED <<db, session, ev, out>>

\* DELETE FROM likes, or INSERT INTO likes, which raises IntegrityError when
\* the row is there (PRIMARY KEY (pdf_id, user_id)): get_db rolls back and
\* the exception leaves the handler.
toggle_like_write(t) ==
    LET th == threads[t]
        row == <<IntOf[th.data[2]], th.user>>
        existing == th.local[1]
    IN  /\ th.pc = "like.write"
        /\ ~WriteLocked(t)
        /\ threads' = IF ~existing /\ row \in likes
                      THEN [threads EXCEPT ![t] = IdleThread]
                      ELSE SetThread(t, "like.update", th.user, th.data, th.local)
        /\ UNCHANGED <<db, session, ev, out>>

\* UPDATE pdfs SET likes_count = likes_count -/+ 1, the commit, and the rest
\* of the like_ branch.
toggle_like_commit(t) ==
    LET th == threads[t]
        pdf_id == IntOf[th.data[2]]
        row == <<pdf_id, th.user>>
        existing == th.local[1]
    IN  /\ th.pc = "like.update"
        /\ likes' = IF existing THEN likes \ {row} ELSE likes \cup {row}
        /\ pdfs' = IF ~PdfExists(pdf_id) THEN pdfs
                   ELSE IF existing
                   THEN [pdfs EXCEPT ![pdf_id].likes_count = @ - 1]
                   ELSE [pdfs EXCEPT ![pdf_id].likes_count = @ + 1]
        /\ out' = IF get_pdf_details(pdf_id)
                  THEN <<Call("edit_message_reply_markup",
                              IF existing THEN "Like" ELSE "Unlike"),
                         Call("answer_callback_query", "LIKE_UPDATED")>>
                  ELSE <<>>
        /\ threads' = [threads EXCEPT ![t] = IdleThread]
        /\ UNCHANGED <<users, tags, downloads, session, ev>>

\* Largest number of rows of the pdfs table in SpecLikeRace.
MaxRacePdfs == 1

\* How far below zero a likes counter is followed in SpecLikeRace.
MaxLikeDrift == 1

\* Two users who send /start once; user 1 registers and uploads under one
\* tag while no thread is busy; Like buttons of a stored document are pressed
\* at any time and handled by the two threads.
NextLikeRace ==
    \/ \E u \in CounterUsers : AllIdle /\ ~get_user(u) /\ StartCommand(u)
    \/ \E t \in (IF Registering(1) THEN {<<"Amina">>} ELSE {<<"Upload PDF">>}) :
            AllIdle /\ TextMessage(1, t)
    \/ AllIdle /\ DocumentMessage(1, "application/pdf", "file1", "a.pdf")
    \/ \E c \in CounterCallbacks :
         AllIdle /\ Deliverable(c, MaxRacePdfs) /\ CallbackQuery(1, c)
    \/ \E t \in ThreadIds, u \in CounterUsers, a \in CounterPdfArgs :
         /\ PdfExists(IntOf[a])
         /\ pdfs[IntOf[a]].likes_count > -MaxLikeDrift
         /\ LikeArrives(t, u, a)
    \/ \E t \in ThreadIds : toggle_like_select(t)
    \/ \E t \in ThreadIds : toggle_like_write(t)
    \/ \E t \in ThreadIds : toggle_like_commit(t)

SpecLikeRace == Init /\ [][NextLikeRace]_vars

\* ------------------------------------------------ SpecTagRace: concurrent toggles
\* Two taps on the same tag button are handed to the two worker threads, which
\* run the toggle of the upload_tag_ / search_tag_ branch step by step on the
\* one list object of the draft: the membership test, then remove or append.

\* The thread is not inside a handler: idle, returned, or left by an exception.
Finished(t) == threads[t].pc \in {"idle", "done", "raised"}

\* The tag list of the user's draft of the flow ("upload" or "search").
DraftTags(flow, user_id) ==
    IF flow = "upload" THEN pdf_upload_stage[user_id].tags
    ELSE search_selected_tags[user_id]

HasDraft(flow, user_id) ==
    IF flow = "upload"
    THEN get_user_status(user_id) = UPLOAD_TAGS /\ user_id \in DOMAIN pdf_upload_stage
    ELSE get_user_status(user_id) = SEARCH_SELECT
            /\ user_id \in DOMAIN search_selected_tags

\* Both threads take a <flow>_tag_<tag> callback of the user, pass the status
\* check and fetch the draft; local[1] keeps the list as it was at the taps.
DoubleTap(user_id, flow, tag) ==
    /\ \A t \in ThreadIds : Finished(t)
    /\ HasDraft(flow, user_id)
    /\ threads' = [t \in ThreadIds |->
                      [pc |-> "tag.test", user |-> user_id,
                       data |-> <<flow, "tag", tag>>,
                       local |-> <<DraftTags(flow, user_id)>>]]
    /\ ev' = Update("callback", user_id, <<flow, "tag", tag>>)
    /\ out' = Answer
    /\ UNCHANGED <<db, session>>

\* if tag in session["tags"]: / if tag in filters:
toggle_test(t) ==
    LET th == threads[t] IN
    /\ th.pc = "tag.test"
    /\ threads' = SetThread(t, "tag.mutate", th.user, th.data,
                            <<th.local[1],
                              th.data[3] \in Range(DraftTags(th.data[1], th.user))>>)
    /\ UNCHANGED <<db, session, ev, out>>

\* list.remove(tag), which raises ValueError when the tag is not in the list,
\* or list.append(tag); then the keyboard is redrawn.
toggle_mutate(t) ==
    LET th == threads[t]
        flow == th.data[1]
        tag == th.data[3]
        old == DraftTags(flow, th.user)
        raises == th.local[2] /\ tag \notin Range(old)
        new == IF th.local[2] THEN RemoveFirst(old, tag) ELSE Append(old, tag)
    IN  /\ th.pc = "tag.mutate"
        /\ threads' = SetThread(t, IF raises THEN "raised" ELSE "done",
                                th.user, th.data, th.local)
        /\ IF raises THEN UNCHANGED <<session, out>>
           ELSE /\ out' = <<Call("edit_message_reply_markup", "")>>
                /\ IF flow = "upload"
                   THEN /\ pdf_upload_stage' =
                              [pdf_upload_stage EXCEPT ![th.user].tags = new]
                        /\ UNCHANGED search_selected_tags
                   ELSE /\ search_selected_tags' =
                              [search_selected_tags EXCEPT ![th.user] = new]
                        /\ UNCHANGED pdf_upload_stage
                /\ UNCHANGED pdf_search_results
        /\ UNCHANGED <<db, ev>>

TagRaceCallbacks ==
    {<<"upload", "tag", t>> : t \in UploadTags}
    \cup {<<"search", "tag", t>> : t \in UploadTags}
    \cup {<<"upload", "cancel">>, <<"search", "cancel">>}

\* One user who sends /start once, registers and opens the upload and search
\* keyboards; single taps are handled one at a time, double taps by both
\* threads at once.
NextTagRace ==
    \/ \E u \in Users : ~get_user(u) /\ StartCommand(u)
    \/ \E u \in Users :
         \E t \in (IF Registering(u) THEN {<<"Amina">>}
                   ELSE {<<"Upload PDF">>, <<"Search PDFs">>}) :
            (\A th \in ThreadIds : Finished(th)) /\ TextMessage(u, t)
    \/ \E u \in Users :
         /\ \A th \in ThreadIds : Finished(th)
         /\ DocumentMessage(u, "application/pdf", "file1", "a.pdf")
    \/ \E u \in Users, c \in TagRaceCallbacks :
         (\A th \in ThreadIds : Finished(th)) /\ CallbackQuery(u, c)
    \/ \E u \in Users, flow \in {"upload", "search"}, tag \in UploadTags :
         DoubleTap(u, flow, tag)
    \/ \E t \in ThreadIds : toggle_test(t)
    \/ \E t \in ThreadIds : toggle_mutate(t)

SpecTagRace == Init /\ [][NextTagRace]_vars

\* ------------------------------------------------ SpecPaging: result pages
\* A registered user has uploaded up to MaxCached documents under one tag,
\* searched for the tag and is looking at the result list; page_<N> callbacks
\* arrive with any N of PageArgs, and Like and Download buttons are pressed.

\* Largest number of stored documents, all of them in the result cache.
MaxCached == 7

PageArgs == {"-1", "0", "1", "2", "3"}

PagingCallbacks ==
    {<<"page", a>> : a \in PageArgs}
    \cup {<<"like", "1">>, <<"like", "2">>, <<"download", "1">>}

RegisteredUser(status) ==
    [username |-> Username, full_name |-> <<"Amina">>, region |-> <<"Hargeisa">>,
     school |-> <<"Al-Noor">>, student_class |-> <<"Form 3">>, status |-> status]

\* The state after n uploads under subject:math and a search_apply for it.
InitPaging ==
    /\ users = Put(EmptyDict, 1, RegisteredUser(SEARCH_RESULTS))
    /\ pdfs \in {StoredPdfs(n) : n \in 1..MaxCached}
    /\ tags = (1..Len(pdfs)) \X {"subject:math"}
    /\ likes = {}
    /\ downloads = {}
    /\ pdf_upload_stage = EmptyDict
    /\ search_selected_tags = Put(EmptyDict, 1, <<"subject:math">>)
    /\ pdf_search_results =
          Put(EmptyDict, 1, get_pdfs_by_multilevel_tags(<<"subject:math">>))
    /\ ev = Update("callback", 1, <<"search", "apply">>)
    /\ out = Answer \o show_pdf_list(pdf_search_results[1], 1)
                \o <<Call("delete_message", "")>>
    /\ threads = NoThreads

NextPaging == \E c \in PagingCallbacks : CallbackQuery(1, c)

SpecPaging == InitPaging /\ [][NextPaging]_vars

\* ------------------------------------------------ SpecUploadRace: concurrent Done
\* Two taps on Done are handed to the two worker threads; both pass the status
\* check, fetch the draft and pass the tag check before either goes on. Each
\* then runs add_pdf, del pdf_upload_stage[user_id] and set_user_status.

\* local[1] is the draft (both threads hold the same dict), local[2] the
\* number of rows of pdfs at the taps.
DoubleDone(user_id) ==
    /\ \A t \in ThreadIds : Finished(t)
    /\ HasDraft("upload", user_id)
    /\ pdf_upload_stage[user_id].tags # <<>>
    /\ threads' = [t \in ThreadIds |->
                      [pc |-> "done.add_pdf", user |-> user_id,
                       data |-> <<"upload", "done">>,
                       local |-> <<pdf_upload_stage[user_id], Len(pdfs)>>]]
    /\ ev' = Update("callback", user_id, <<"upload", "done">>)
    /\ out' = Answer
    /\ UNCHANGED <<db, session>>

\* pdf_id = db.add_pdf(...): one transaction.
upload_done_add_pdf(t) ==
    LET th == threads[t]
        upload == th.local[1]
    IN  /\ th.pc = "done.add_pdf"
        /\ IF add_pdf_raises(upload.tags)
           THEN /\ threads' = SetThread(t, "raised", th.user, th.data, th.local)
                /\ UNCHANGED <<pdfs, tags>>
           ELSE /\ pdfs' = add_pdf_row(th.user, upload.file_id, upload.file_name)
                /\ tags' = add_pdf_tags(Len(pdfs) + 1, upload.tags)
                /\ threads' = SetThread(t, "done.del", th.user, th.data, th.local)
        /\ UNCHANGED <<users, likes, downloads, session, ev, out>>

\* del pdf_upload_stage[user_id], which raises KeyError when the entry is gone.
upload_done_del(t) ==
    LET th == threads[t] IN
    /\ th.pc = "done.del"
    /\ IF th.user \in DOMAIN pdf_upload_stage
       THEN /\ pdf_upload_stage' = Drop(pdf_upload_stage, th.user)
            /\ threads' = SetThread(t, "done.set_status", th.user, th.data, th.local)
       ELSE /\ threads' = SetThread(t, "raised", th.user, th.data, th.local)
            /\ UNCHANGED pdf_upload_stage
    /\ UNCHANGED <<db, search_selected_tags, pdf_search_results, ev, out>>

\* db.set_user_status(user_id, "sys.menu.idle") and the messages.
upload_done_set_status(t) ==
    LET th == threads[t] IN
    /\ th.pc = "done.set_status"
    /\ users' = set_user_status(users, th.user, MENU_IDLE)
    /\ out' = <<Call("edit_message_text", "UPLOAD_SUCCESS")>> \o show_main_menu
    /\ threads' = SetThread(t, "done", th.user, th.data, th.local)
    /\ UNCHANGED <<pdfs, tags, likes, downloads, session, ev>>

\* Largest number of rows of the pdfs table at a double tap in SpecUploadRace.
MaxUploadRacePdfs == 1

\* One user who sends /start once, registers and uploads under two tags,
\* tapping Done once or twice.
NextUploadRace ==
    \/ \E u \in Users : ~get_user(u) /\ StartCommand(u)
    \/ \E u \in Users :
         \E t \in (IF Registering(u) THEN {<<"Amina">>} ELSE {<<"Upload PDF">>}) :
            (\A th \in ThreadIds : Finished(th)) /\ TextMessage(u, t)
    \/ \E u \in Users :
         /\ \A th \in ThreadIds : Finished(th)
         /\ DocumentMessage(u, "application/pdf", "file1", "a.pdf")
    \/ \E u \in Users, c \in UploadCallbacks :
         /\ \A th \in ThreadIds : Finished(th)
         /\ Deliverable(c, MaxUploadRacePdfs + 1)
         /\ CallbackQuery(u, c)
    \/ \E u \in Users : Len(pdfs) < MaxUploadRacePdfs /\ DoubleDone(u)
    \/ \E t \in ThreadIds : upload_done_add_pdf(t)
    \/ \E t \in ThreadIds : upload_done_del(t)
    \/ \E t \in ThreadIds : upload_done_set_status(t)

SpecUploadRace == Init /\ [][NextUploadRace]_vars

\* ================================================================= claims

LeafStatuses ==
    {AUTH_NAME, AUTH_REGION, AUTH_SCHOOL, AUTH_CLASS, MENU_IDLE, UPLOAD_FILE,
     UPLOAD_TAGS, SEARCH_SELECT, SEARCH_RESULTS, VIEW_PAGE}

\* The update handled by the step is a callback of user u.
CallbackStep(u) == ev'.kind = "callback" /\ ev'.user = u

\* A text update that handle_text passes on: non-empty, no command.
FreeText(t) == t # <<>> /\ Head(t) # "/"

\* The answer of bot.handle_callback to a callback it rejects.
Rejected == <<Call("answer_callback_query", "This action is not allowed right now.")>>

\* C1: in every reachable state the persisted status of every user record is
\* one of the ten leaf statuses.
C1_StatusIsLeaf == \A u \in DOMAIN users : users[u].status \in LeafStatuses

\* C1 witness: a record exists and has been moved by text and callback updates.
C1_Witness ==
    /\ ev.kind = "callback"
    /\ \E u \in DOMAIN users : users[u].status = SEARCH_RESULTS

\* The status table: the update classes a status lists as accepted.
Accepts(status, e) ==
    CASE status \in {AUTH_NAME, AUTH_REGION, AUTH_SCHOOL, AUTH_CLASS} ->
            e.kind = "text" /\ FreeText(e.data)
      [] status = MENU_IDLE ->
            e.kind = "text" /\ FreeText(e.data)
      [] status = UPLOAD_FILE -> e.kind = "document"
      [] status = UPLOAD_TAGS ->
            e.kind = "callback"
            /\ (HasPrefix(e.data, <<"upload", "tag">>)
                \/ e.data \in {<<"upload", "done">>, <<"upload", "cancel">>})
      [] status = SEARCH_SELECT ->
            e.kind = "callback"
            /\ (HasPrefix(e.data, <<"search", "tag">>)
                \/ e.data \in {<<"search", "apply">>, <<"search", "cancel">>})
      [] status = SEARCH_RESULTS ->
            e.kind = "callback"
            /\ (HasPrefix(e.data, <<"page">>) \/ HasPrefix(e.data, <<"view">>))
      [] status = VIEW_PAGE ->
            e.kind = "callback"
            /\ (HasPrefix(e.data, <<"like">>) \/ HasPrefix(e.data, <<"download">>)
                \/ HasPrefix(e.data, <<"back">>))
      [] OTHER -> FALSE

\* C2: a text, document or callback update of a class that the user's status
\* does not list as accepted leaves the persisted status as it was.
C2_IllegalEventKeepsStatus ==
    [][\A u \in DOMAIN users :
        (ev'.user = u /\ ev'.kind \in {"text", "document", "callback"}
            /\ ~Accepts(users[u].status, ev'))
        => users'[u].status = users[u].status]_vars

\* What a registration step stores for the text it is sent.
C3_Stored(t, stripped) == IF stripped THEN Strip(t) ELSE t

\* The registration dialogue, step by step: /start of an unknown user creates
\* the record in auth.register.name; a free text in auth.register.name /
\* region / school / class stores the text as full_name / region / school /
\* student_class, changes nothing else of the record, and moves the status to
\* the next of region, school, class, sys.menu.idle.
C3_Steps(stripped) ==
    /\ (ev'.kind = "start" /\ ev'.user \notin DOMAIN users)
        => (ev'.user \in DOMAIN users' /\ users'[ev'.user].status = AUTH_NAME)
    /\ \A u \in DOMAIN users :
        (ev'.kind = "text" /\ ev'.user = u /\ FreeText(ev'.data)) =>
            LET t == C3_Stored(ev'.data, stripped) IN
            /\ users[u].status = AUTH_NAME =>
                users'[u] = [users[u] EXCEPT !.full_name = t, !.status = AUTH_REGION]
            /\ users[u].status = AUTH_REGION =>
                users'[u] = [users[u] EXCEPT !.region = t, !.status = AUTH_SCHOOL]
            /\ users[u].status = AUTH_SCHOOL =>
                users'[u] = [users[u] EXCEPT !.school = t, !.status = AUTH_CLASS]
            /\ users[u].status = AUTH_CLASS =>
                users'[u] = [users[u] EXCEPT !.student_class = t, !.status = MENU_IDLE]

\* C3 (as stated): /start of an unknown user, then four free texts, lead
\* through the four registration statuses to sys.menu.idle and store the four
\* texts, as sent, as name, region, school and class-level.
C3_StoresTextsAsSent == [][C3_Steps(FALSE)]_vars

\* C3 (amended): the same, each text being stored with the whitespace at its
\* two ends removed.
C3_StoresStrippedTexts == [][C3_Steps(TRUE)]_vars

\* C3 witness: the four prompts have been answered, the last answer just now.
C3_Witness ==
    /\ ev.kind = "text" /\ ev.data = <<"Form 3">>
    /\ 1 \in DOMAIN users
    /\ users[1].status = MENU_IDLE
    /\ users[1].full_name = <<"Amina">>
    /\ users[1].region = <<"Hargeisa">>
    /\ users[1].school = <<"Al-Noor">>
    /\ users[1].student_class = <<"Form 3">>

\* The tags stored for document pdf_id.
TagSetOf(pdf_id) == {r[2] : r \in {x \in tags : x[1] = pdf_id}}

\* The ids of the stored documents whose tag set includes every tag of F.
Supersets(F) == {p \in 1..Len(pdfs) : Range(F) \subseteq TagSetOf(p)}

\* C4: in status upload.pdf.tags with a draft holding at least one tag, an
\* upload_done callback adds exactly one row to pdfs, owned by the user, with
\* the draft's file reference and file name, gives it exactly the draft's tags
\* (all other rows untouched), and sets the status to sys.menu.idle.
C4_UploadDoneCreatesDocument ==
    [][\A u \in UploadUsers :
         (/\ CallbackStep(u)
          /\ ev'.data = <<"upload", "done">>
          /\ get_user_status(u) = UPLOAD_TAGS
          /\ u \in DOMAIN pdf_upload_stage
          /\ pdf_upload_stage[u].tags # <<>>)
         => LET upload == pdf_upload_stage[u]
                n == Len(pdfs) + 1
            IN  /\ Len(pdfs') = n
                /\ SubSeq(pdfs', 1, Len(pdfs)) = pdfs
                /\ pdfs'[n].user_id = u
                /\ pdfs'[n].file_id = upload.file_id
                /\ pdfs'[n].file_name = upload.file_name
                /\ tags' \ tags = {n} \X Range(upload.tags)
                /\ tags \subseteq tags'
                /\ users'[u].status = MENU_IDLE]_vars

\* C4 witness: user 2 has just stored a document under both tags.
C4_Witness ==
    /\ ev = Update("callback", 2, <<"upload", "done">>)
    /\ Call("edit_message_text", "UPLOAD_SUCCESS") \in Range(out)
    /\ Len(pdfs) >= 1
    /\ pdfs[Len(pdfs)].user_id = 2
    /\ TagSetOf(Len(pdfs)) = UploadTags
    /\ get_user_status(2) = MENU_IDLE

\* C5: in status search.filter.select with a search draft holding at least one
\* tag, a search_apply callback stores as the user's result cache the query
\* result for the draft, which lists exactly the documents carrying every tag
\* of the draft, once each; the status becomes search.results.page when the
\* result is non-empty and sys.menu.idle when it is empty.
C5_SearchApplyCachesResult ==
    [][\A u \in Users :
         (/\ CallbackStep(u)
          /\ ev'.data = <<"search", "apply">>
          /\ get_user_status(u) = SEARCH_SELECT
          /\ u \in DOMAIN search_selected_tags
          /\ search_selected_tags[u] # <<>>)
         => LET F == search_selected_tags[u] IN
            /\ u \in DOMAIN pdf_search_results'
            /\ pdf_search_results'[u] = get_pdfs_by_multilevel_tags(F)
            /\ {x.id : x \in Range(pdf_search_results'[u])} = Supersets(F)
            /\ Len(pdf_search_results'[u]) = Cardinality(Supersets(F))
            /\ users'[u].status = IF Supersets(F) # {} THEN SEARCH_RESULTS
                                  ELSE MENU_IDLE]_vars

\* C5 witness: search_apply has just cached one of two stored documents.
C5_Witness ==
    /\ ev = Update("callback", 1, <<"search", "apply">>)
    /\ get_user_status(1) = SEARCH_RESULTS
    /\ 1 \in DOMAIN pdf_search_results
    /\ Len(pdf_search_results[1]) = 1
    /\ Len(pdfs) = 2
    /\ 1 \in DOMAIN search_selected_tags
    /\ Len(search_selected_tags[1]) = 2

\* C6: in search.results.page a view_<id> callback that names an existing
\* document sets the status to view.pdf.page.
C6_ViewFromResults ==
    [][\A u \in DOMAIN users :
        (CallbackStep(u) /\ users[u].status = SEARCH_RESULTS
            /\ HasPrefix(ev'.data, <<"view">>) /\ IsInt(ev'.data[2])
            /\ PdfExists(IntOf[ev'.data[2]]))
        => users'[u].status = VIEW_PAGE]_vars

\* C7: in view.pdf.page the back_to_results callback sets the status to
\* search.results.page when the user has a result cache, to sys.menu.idle
\* when not.
C7_BackToResults ==
    [][\A u \in DOMAIN users :
        (CallbackStep(u) /\ users[u].status = VIEW_PAGE
            /\ ev'.data = <<"back", "to", "results">>)
        => users'[u].status = IF u \in DOMAIN pdf_search_results
                              THEN SEARCH_RESULTS ELSE MENU_IDLE]_vars

\* The domain prefixes of callback data.
DomainPrefixes == {"upload", "search", "view", "auth", "sys"}

\* C8: a callback whose data start with upload_, search_, view_, auth_ or
\* sys_ while the user's status is of another domain is rejected: the users,
\* pdfs, tags, likes and downloads tables, the upload drafts, the search
\* drafts and the result caches are unchanged, and the only call made is the
\* "not allowed" answer.
C8_DomainMismatchRejected ==
    [][\A u \in DOMAIN users :
        (CallbackStep(u) /\ Len(ev'.data) >= 2 /\ ev'.data[1] \in DomainPrefixes
            /\ ev'.data[1] # users[u].status[1])
        => (UNCHANGED <<db, session>> /\ out' = Rejected)]_vars

\* C8 witness: a search_apply callback has just been rejected for a user who
\* is choosing the tags of an upload.
C8_Witness ==
    /\ ev.kind = "callback" /\ ev.data = <<"search", "apply">>
    /\ out = Rejected
    /\ ev.user \in DOMAIN pdf_upload_stage
    /\ pdf_upload_stage[ev.user].tags # <<>>
    /\ get_user_status(ev.user) = UPLOAD_TAGS

\* C9: a like_<id> or download_<id> callback received in a status other than
\* view.pdf.page changes neither the likes and downloads tables nor any
\* counter of the pdfs table.
C9_LikeOutsideViewIgnored ==
    [][\A u \in DOMAIN users :
        (CallbackStep(u) /\ users[u].status # VIEW_PAGE
            /\ (HasPrefix(ev'.data, <<"like">>) \/ HasPrefix(ev'.data, <<"download">>)))
        => UNCHANGED <<likes, downloads, pdfs>>]_vars

\* C10: for a non-empty filter F the query returns exactly the stored documents
\* whose tag set includes every tag of F, once each; for the empty filter it
\* returns the empty sequence.
C10_IntersectionQuery ==
    ev.kind = "result" =>
        LET F == ev.data
            r == pdf_search_results[ev.user]
        IN  IF F = <<>> THEN r = <<>>
            ELSE /\ {x.id : x \in Range(r)} = Supersets(F)
                 /\ Len(r) = Cardinality(Supersets(F))

\* C10 witness: a two-tag filter returned the document carrying three tags
\* and left out a document carrying only one of the filter's tags.
C10_Witness ==
    /\ ev.kind = "result"
    /\ Len(ev.data) = 2
    /\ Len(pdf_search_results[ev.user]) = 1
    /\ TagSetOf(pdf_search_results[ev.user][1].id) = QueryTags
    /\ \E p \in 1..Len(pdfs) :
          /\ Cardinality(TagSetOf(p)) = 1
          /\ TagSetOf(p) \subseteq Range(ev.data)

\* C11: every summary returned by the query carries the full stored tag set of
\* its document, tags outside the filter included.
C11_SummaryCarriesFullTagSet ==
    ev.kind = "result" =>
        \A x \in Range(pdf_search_results[ev.user]) : x.tags = TagSetOf(x.id)

\* The users with a Like row / a Download row for document d.
LikersOf(d) == {r[2] : r \in {x \in likes : x[1] = d}}
DownloadersOf(d) == {r[2] : r \in {x \in downloads : x[1] = d}}

\* A like_<a> / download_<a> callback of a user with a record, naming a stored
\* document, is the update handled by the step.
ButtonStep(u, button, a) ==
    /\ CallbackStep(u)
    /\ ev'.data = <<button, a>>
    /\ get_user(u)
    /\ IntOf[a] \in 1..Len(pdfs)

\* C12: in every reachable state the likes counter of every stored document
\* equals the number of Like rows naming it.
C12_LikesCounterMatchesRows ==
    \A d \in 1..Len(pdfs) : pdfs[d].likes_count = Cardinality(LikersOf(d))

\* C13: for a stored document d and a user u, toggle_like(d, u) flips the
\* presence of the Like (d, u) and returns the presence that holds afterwards
\* (shown as the label of the detail keyboard), and a second toggle_like(d, u)
\* run on the state it leaves gives back the likes table and the pdfs table,
\* counter included, as they were.
C13_ToggleLikeLaw ==
    [][\A u \in CounterUsers, a \in CounterPdfArgs :
         ButtonStep(u, "like", a)
         => LET d == IntOf[a] IN
            /\ (<<d, u>> \in likes') = (<<d, u>> \notin likes)
            /\ toggle_like_result(d, u) = (<<d, u>> \in likes')
            /\ Call("edit_message_reply_markup",
                    IF <<d, u>> \in likes' THEN "Unlike" ELSE "Like")
                  \in Range(out')
            /\ toggle_like_rows(d, u)' = likes
            /\ toggle_like_pdfs(d, u)' = pdfs]_vars

\* C13 witness: user 2 has just taken back a like of document 1 that user 1
\* still likes.
C13_Witness ==
    /\ ev = Update("callback", 2, <<"like", "1">>)
    /\ Len(pdfs) >= 1
    /\ Call("edit_message_reply_markup", "Like") \in Range(out)
    /\ LikersOf(1) = {1}
    /\ pdfs[1].likes_count = 1

\* C14: for a stored document d and a user u, increment_download(d, u) adds
\* the Download (d, u) and raises d's downloads counter by exactly 1 when the
\* record is new, and changes neither when the record is there already; no
\* step removes a Download record, so the counter of a stored document always
\* equals the number of its Download records.
C14_DownloadCountedOnce ==
    [][/\ downloads \subseteq downloads'
       /\ \A d \in 1..Len(pdfs') :
             pdfs'[d].downloads_count = Cardinality(DownloadersOf(d)')
       /\ \A u \in CounterUsers, a \in CounterPdfArgs :
             ButtonStep(u, "download", a)
             => LET d == IntOf[a] IN
                IF <<d, u>> \notin downloads
                THEN /\ downloads' = downloads \cup {<<d, u>>}
                     /\ pdfs' = [pdfs EXCEPT ![d].downloads_count = @ + 1]
                ELSE /\ downloads' = downloads
                     /\ pdfs' = pdfs]_vars

\* C14 witness: both users have downloaded document 1, user 2 just now.
C14_Witness ==
    /\ ev = Update("callback", 2, <<"download", "1">>)
    /\ Len(pdfs) >= 1
    /\ Call("send_document", "file1") \in Range(out)
    /\ DownloadersOf(1) = {1, 2}
    /\ pdfs[1].downloads_count = 2

\* What the claim says a toggle of tag t does to the list old.
Toggled(old, t) ==
    IF t \in Range(old) THEN SelectSeq(old, LAMBDA x : x # t)
    ELSE Append(old, t)

NoRepeat(tag_list) == Cardinality(Range(tag_list)) = Len(tag_list)

\* C15: an upload_tag_<T> callback in upload.pdf.tags and a search_tag_<T>
\* callback in search.filter.select, the draft being there, remove T from the
\* draft's list if it is present and append it at the end otherwise; no draft
\* ever holds a tag twice, and a second toggle of T gives back the tag set.
C15_ToggleTagLaw ==
    [][/\ \A u \in DOMAIN pdf_upload_stage' :
             NoRepeat(pdf_upload_stage'[u].tags)
       /\ \A u \in DOMAIN search_selected_tags' :
             NoRepeat(search_selected_tags'[u])
       /\ \A u \in Users, t \in UploadTags :
             /\ (/\ CallbackStep(u)
                 /\ ev'.data = <<"upload", "tag", t>>
                 /\ get_user_status(u) = UPLOAD_TAGS
                 /\ u \in DOMAIN pdf_upload_stage)
                => LET old == pdf_upload_stage[u].tags IN
                   /\ u \in DOMAIN pdf_upload_stage'
                   /\ pdf_upload_stage'[u].tags = Toggled(old, t)
                   /\ Range(Toggled(Toggled(old, t), t)) = Range(old)
             /\ (/\ CallbackStep(u)
                 /\ ev'.data = <<"search", "tag", t>>
                 /\ get_user_status(u) = SEARCH_SELECT
                 /\ u \in DOMAIN search_selected_tags)
                => LET old == search_selected_tags[u] IN
                   /\ u \in DOMAIN search_selected_tags'
                   /\ search_selected_tags'[u] = Toggled(old, t)
                   /\ Range(Toggled(Toggled(old, t), t)) = Range(old)]_vars

\* C15 witness: the first of two selected search tags has just been toggled
\* off, the second one stays.
C15_Witness ==
    /\ ev = Update("callback", 1, <<"search", "tag", "subject:math">>)
    /\ get_user_status(1) = SEARCH_SELECT
    /\ 1 \in DOMAIN search_selected_tags
    /\ search_selected_tags[1] = <<"exam:final">>

\* C16: after an upload_done that stores the document, and after an
\* upload_cancel in upload.pdf.file or upload.pdf.tags, the user has no entry
\* in pdf_upload_stage.
C16_UploadDraftCleared ==
    [][\A u \in UploadUsers :
         /\ (/\ CallbackStep(u)
             /\ ev'.data = <<"upload", "done">>
             /\ get_user_status(u) = UPLOAD_TAGS
             /\ u \in DOMAIN pdf_upload_stage
             /\ pdf_upload_stage[u].tags # <<>>)
            => (Len(pdfs') = Len(pdfs) + 1 /\ u \notin DOMAIN pdf_upload_stage')
         /\ (/\ CallbackStep(u)
             /\ ev'.data = <<"upload", "cancel">>
             /\ get_user_status(u) \in {UPLOAD_FILE, UPLOAD_TAGS})
            => u \notin DOMAIN pdf_upload_stage']_vars

\* C16 witness: user 1 has just cancelled an upload with a tag selected, while
\* user 2 still has a draft.
C16_Witness ==
    /\ ev = Update("callback", 1, <<"upload", "cancel">>)
    /\ Call("edit_message_text", "UPLOAD_CANCELLED") \in Range(out)
    /\ DOMAIN pdf_upload_stage = {2}
    /\ get_user_status(1) = MENU_IDLE

\* C17: after a search_apply that runs the query (the draft holds a tag),
\* whatever the result, and after a search_cancel in search.filter.select, the
\* user has no entry in search_selected_tags.
C17_SearchDraftCleared ==
    [][\A u \in Users :
         /\ (/\ CallbackStep(u)
             /\ ev'.data = <<"search", "apply">>
             /\ get_user_status(u) = SEARCH_SELECT
             /\ u \in DOMAIN search_selected_tags
             /\ search_selected_tags[u] # <<>>)
            => u \notin DOMAIN search_selected_tags'
         /\ (/\ CallbackStep(u)
             /\ ev'.data = <<"search", "cancel">>
             /\ get_user_status(u) = SEARCH_SELECT)
            => u \notin DOMAIN search_selected_tags']_vars

\* C18: in status upload.pdf.tags with no entry in pdf_upload_stage for the
\* user, an upload_tag_<T> or upload_done callback sets the status to
\* sys.menu.idle, sends SESSION_EXPIRED, and leaves the pdfs and tags tables
\* and the absence of a draft as they are.
C18_UploadSessionLost ==
    [][\A u \in Users :
         (/\ CallbackStep(u)
          /\ \/ ev'.data = <<"upload", "done">>
             \/ \E t \in UploadTags : ev'.data = <<"upload", "tag", t>>
          /\ get_user_status(u) = UPLOAD_TAGS
          /\ u \notin DOMAIN pdf_upload_stage)
         => /\ users'[u].status = MENU_IDLE
            /\ Call("send_message", "SESSION_EXPIRED") \in Range(out')
            /\ pdfs' = pdfs
            /\ tags' = tags
            /\ u \notin DOMAIN pdf_upload_stage']_vars

\* C18 witness: upload_done has just been answered with SESSION_EXPIRED.
C18_Witness ==
    /\ ev = Update("callback", 1, <<"upload", "done">>)
    /\ Call("send_message", "SESSION_EXPIRED") \in Range(out)
    /\ get_user_status(1) = MENU_IDLE
    /\ 1 \notin DOMAIN pdf_upload_stage
    /\ pdfs = <<>>

\* C19: in status search.filter.select with no entry in search_selected_tags
\* for the user, a search_tag_<T> or search_apply callback sets the status to
\* sys.menu.idle, sends SESSION_EXPIRED, and creates no search draft.
C19_SearchSessionLost ==
    [][\A u \in Users :
         (/\ CallbackStep(u)
          /\ \/ ev'.data = <<"search", "apply">>
             \/ \E t \in UploadTags : ev'.data = <<"search", "tag", t>>
          /\ get_user_status(u) = SEARCH_SELECT
          /\ u \notin DOMAIN search_selected_tags)
         => /\ users'[u].status = MENU_IDLE
            /\ Call("send_message", "SESSION_EXPIRED") \in Range(out')
            /\ u \notin DOMAIN search_selected_tags']_vars

\* C20: a validation failure changes no state. A document that is not a PDF
\* in upload.pdf.file, an upload_done in upload.pdf.tags with a draft without
\* tags, and a search_apply in search.filter.select with an empty filter each
\* leave the five tables, the status included, and the three session dicts as
\* they are.
C20_ValidationFailureKeepsState ==
    [][\A u \in Users :
         (\/ /\ ev'.kind = "document" /\ ev'.user = u
             /\ ev'.data[1] # "application/pdf"
             /\ get_user_status(u) = UPLOAD_FILE
          \/ /\ CallbackStep(u)
             /\ ev'.data = <<"upload", "done">>
             /\ get_user_status(u) = UPLOAD_TAGS
             /\ u \in DOMAIN pdf_upload_stage
             /\ pdf_upload_stage[u].tags = <<>>
          \/ /\ CallbackStep(u)
             /\ ev'.data = <<"search", "apply">>
             /\ get_user_status(u) = SEARCH_SELECT
             /\ (u \in DOMAIN search_selected_tags
                    => search_selected_tags[u] = <<>>))
         => UNCHANGED <<db, session>>]_vars

\* C20 witness: a PNG sent in upload.pdf.file has just been turned down.
C20_Witness ==
    /\ ev.kind = "document"
    /\ ev.data[1] = "image/png"
    /\ out = <<Call("reply_to", "UPLOAD_ONLY_PDF")>>
    /\ get_user_status(1) = UPLOAD_FILE
    /\ 1 \notin DOMAIN pdf_upload_stage

\* C21: a view_<id>, like_<id> or download_<id> callback of a user with a
\* record, whose id names no row of pdfs, changes no state: the five tables,
\* the status included, and the three session dicts stay as they are.
C21_NotFoundKeepsState ==
    [][\A u \in Users, a \in PdfArgs :
         (/\ CallbackStep(u)
          /\ ev'.data \in {<<"view", a>>, <<"like", a>>, <<"download", a>>}
          /\ get_user(u)
          /\ IsInt(a) => ~PdfExists(IntOf[a]))
         => UNCHANGED <<db, session>>]_vars

\* C22: a transition during which a store call fails has no partial effect:
\* the users table (fields and status), the pdfs and tags tables and the three
\* session dicts are as they were before the update.
C22_StoreFailureIsAtomic ==
    [][ev'.kind \in {"text.fail", "callback.fail"}
         => UNCHANGED <<users, pdfs, tags, session>>]_vars

\* C23: once the threads handling like_<d> callbacks have all finished, the
\* likes counter of every stored document equals the number of its Like rows.
C23_LikeRaceKeepsCounter ==
    AllIdle => \A d \in 1..Len(pdfs) :
                  pdfs[d].likes_count = Cardinality(LikersOf(d))

\* C24: when the second of two concurrent toggles of the same tag finishes,
\* neither toggle has failed, the draft holds no tag twice, and its tag set is
\* the one two toggles in a row give, which is the set before the taps.
C24_ToggleRaceKeepsDraft ==
    [][((\E t \in ThreadIds : ~Finished(t)) /\ (\A t \in ThreadIds : Finished(t)'))
         => \A t \in ThreadIds :
              LET th == threads[t]
                  now == DraftTags(th.data[1], th.user)'
              IN  /\ threads'[t].pc # "raised"
                  /\ NoRepeat(now)
                  /\ Range(now) = Range(Toggled(Toggled(th.local[1], th.data[3]),
                                                th.data[3]))]_vars

\* C25: in every reachable state every row of pdfs has at least one row in
\* tags.
C25_DocumentHasTag == \A d \in 1..Len(pdfs) : TagSetOf(d) # {}

\* C25 witness: an upload has just been completed with a single tag.
C25_Witness ==
    /\ ev.kind = "callback"
    /\ ev.data = <<"upload", "done">>
    /\ Call("edit_message_text", "UPLOAD_SUCCESS") \in Range(out)
    /\ Len(pdfs) >= 1
    /\ Cardinality(TagSetOf(Len(pdfs))) = 1

\* C26: in every reachable state a /start of any user can be handled, and for
\* a user with a record, whatever the status and the session content, it sets
\* the status to sys.menu.idle.
C26_StartResetsStatus ==
    [][/\ \A u \in Users : ENABLED StartCommand(u)
       /\ \A u \in Users :
             (ev'.kind = "start" /\ ev'.user = u /\ get_user(u))
             => users'[u].status = MENU_IDLE]_vars

\* C26 witness: a /start has just taken a user with an upload draft and a
\* result cache to the menu.
C26_Witness ==
    /\ ev.kind = "start"
    /\ get_user_status(ev.user) = MENU_IDLE
    /\ ev.user \in DOMAIN pdf_upload_stage
    /\ ev.user \in DOMAIN pdf_search_results

\* C27: for a user with a record, in any status, a back_to_menu callback
\* removes the user's entries of pdf_upload_stage, search_selected_tags and
\* pdf_search_results, sets the status to sys.menu.idle, and leaves the other
\* columns of the users row and the pdfs, tags, likes and downloads tables
\* unchanged.
C27_BackToMenuFrame ==
    [][\A u \in Users :
         (CallbackStep(u) /\ ev'.data = <<"back", "to", "menu">> /\ get_user(u))
         => /\ u \notin DOMAIN pdf_upload_stage'
            /\ u \notin DOMAIN search_selected_tags'
            /\ u \notin DOMAIN pdf_search_results'
            /\ users' = [users EXCEPT ![u].status = MENU_IDLE]
            /\ UNCHANGED <<pdfs, tags, likes, downloads>>]_vars

\* C27 witness: back_to_menu has just cleared the session of a user who has a
\* stored document with a like.
C27_Witness ==
    /\ ev = Update("callback", 1, <<"back", "to", "menu">>)
    /\ get_user_status(1) = MENU_IDLE
    /\ 1 \notin DOMAIN pdf_upload_stage
    /\ 1 \notin DOMAIN search_selected_tags
    /\ 1 \notin DOMAIN pdf_search_results
    /\ Len(pdfs) >= 1
    /\ <<1, 1>> \in likes

\* The ids listed by the result-list message among the calls o, in order.
Listed(o) ==
    LET lists == SelectSeq(o, LAMBDA c : c.text = "PDF_LIST_HEADER")
    IN  IF lists = <<>> THEN <<>> ELSE lists[1].items

\* ceil(n / 5)
PageCount(n) == (n + PAGE_SIZE - 1) \div PAGE_SIZE

\* C28: in search.results.page with a cache of n > 0 entries, a page_<N>
\* callback keeps status and cache, and lists, in order, the cached entries at
\* 0-based positions (N-1)*5 .. N*5-1 when N is in 1..ceil(n/5), and no entry
\* for any other N, zero and negative N included.
C28_PageListsItsSlice ==
    [][\A a \in PageArgs :
         (/\ CallbackStep(1)
          /\ ev'.data = <<"page", a>>
          /\ get_user_status(1) = SEARCH_RESULTS
          /\ 1 \in DOMAIN pdf_search_results
          /\ pdf_search_results[1] # <<>>)
         => LET cache == pdf_search_results[1]
                n == Len(cache)
                N == IntOf[a]
                last == IF N * PAGE_SIZE < n THEN N * PAGE_SIZE ELSE n
            IN  /\ users' = users
                /\ pdf_search_results' = pdf_search_results
                /\ Listed(out') =
                      IF N \in 1..PageCount(n)
                      THEN [i \in 1..(last - (N - 1) * PAGE_SIZE) |->
                                cache[(N - 1) * PAGE_SIZE + i].id]
                      ELSE <<>>]_vars

\* C29: when the second of two concurrent upload_done callbacks for one draft
\* finishes, the pdfs table has grown by at most one row since the taps.
C29_DoneRaceCreatesOneDocument ==
    [][((\E t \in ThreadIds : ~Finished(t)) /\ (\A t \in ThreadIds : Finished(t)'))
         => \A t \in ThreadIds : Len(pdfs') <= threads[t].local[2] + 1]_vars

\* C30: every user whose status is outside auth.register.* has a region, a
\* school and a class level stored.
C30_RegistrationNotBypassed ==
    \A u \in DOMAIN users :
        (users[u].status # NULL /\ ~Registering(u))
            => /\ users[u].region # NULL
               /\ users[u].school # NULL
               /\ users[u].student_class # NULL

\* C31: a user whose stored status is sys.menu.idle has no entry in
\* pdf_upload_stage and none in search_selected_tags.
C31_IdleHasNoDraft ==
    \A u \in DOMAIN users :
        users[u].status = MENU_IDLE
            => /\ u \notin DOMAIN pdf_upload_stage
               /\ u \notin DOMAIN search_selected_tags

====
